---- MODULE Spec2Model ----
(***************************************************************************)
(* Model of the rental-agreement analysis backend.                         *)
(*                                                                         *)
(*   backend/analysis/analysis.py   RentalAnalysis: the two reference      *)
(*                                  collections and the per-sentence       *)
(*                                  classification loop                    *)
(*   backend/utils/file_utils.py    split_text_into_sections               *)
(*   backend/main.py                upload, read and search endpoints      *)
(*   backend/api/items.py           the in-memory item store               *)
(*                                                                         *)
(* Seven specifications share the module:                                  *)
(*   Spec      the analyzer after construction, serving                    *)
(*             analyze_document_for_issues requests one loop step at a     *)
(*             time;                                                       *)
(*   SegSpec   split_text_into_sections applied to every text over a small *)
(*             alphabet;                                                   *)
(*   StartSpec the construction of the analyzer on a store an earlier run  *)
(*             may have filled, followed by requests;                      *)
(*   ApiSpec   uploads, reads of stored analyses and searches;             *)
(*   EssSpec   analyze_essentials applied to every outcome of the          *)
(*             language-service call over a small token alphabet;          *)
(*   ExtSpec   extract_text applied to files of every extension and small  *)
(*             bodies;                                                     *)
(*   ItemSpec  create_item, update_item and delete_item in any order.      *)
(***************************************************************************)
EXTENDS Integers, Sequences, FiniteSets, TLC

VARIABLES
    minimal_requirements,  \* collection: sequence of stored entries
    sample_agreement,      \* collection: sequence of stored entries
    sentences,             \* argument of analyze_document_for_issues
    i,                     \* 1-based position of the for loop (analysis.py:187)
    results,               \* the local list `results`
    ret,                   \* value returned to the caller (<<>> while running)
    calls,                 \* log of calls made to the model and the collections
    failed,                \* positions whose try block raised (analysis.py:242)
    pc,                    \* "idle" | "loop" | "done"
    text,                  \* argument of split_text_into_sections
    sections,              \* value returned by split_text_into_sections
    segpc,                 \* "off" | "start" | "done"
    path,                  \* which return of split_text_into_sections was taken
    startpc,               \* position of RentalAnalysis.__init__; "ready" once imported
    exists,                \* names of the collections present in the persistent store
    fileRuns,              \* per collection, what its sample files gave at this start
    ANALYSES,              \* main.py:42, the stored analyses by id
    upload,                \* {id} while an upload with that id is handled, else {}
    response,              \* the last response of an endpoint
    returned,              \* ids that upload_document has answered with
    content,               \* outcome of the language-service call
    essential_results,     \* value analyze_essentials returned
    esspc,                 \* "off" | "start" | "done"
    file_path,             \* argument of extract_text: the path and what reading it gives
    page_num,              \* 1-based position of the page loop (file_utils.py:120)
    extracted_text,        \* the local `text` of the extractor, then its return value
    extpc,                 \* "off" | "start" | "pages" | "done"
    ITEMS_DB,              \* items.py:5, the stored items by id
    item_result            \* what the last call of items.py returned

vars == <<minimal_requirements, sample_agreement, sentences, i, results, ret,
          calls, failed, pc, text, sections, segpc, path, startpc, exists, fileRuns,
          ANALYSES, upload, response, returned, content, essential_results, esspc,
          file_path, page_num, extracted_text, extpc, ITEMS_DB, item_result>>

analyzerVars == <<minimal_requirements, sample_agreement, sentences, i,
                  results, ret, calls, failed, pc>>

segVars == <<text, sections, segpc, path>>

startVars == <<startpc, exists, fileRuns>>

\* What the steps of one component leave alone.
apiVars == <<ANALYSES, upload, response, returned>>

essVars == <<content, essential_results, esspc>>

extVars == <<file_path, page_num, extracted_text, extpc>>

itemVars == <<ITEMS_DB, item_result>>

outsideAnalyzer == <<segVars, startVars, apiVars, essVars, extVars, itemVars>>
outsideSegmenter == <<analyzerVars, startVars, apiVars, essVars, extVars, itemVars>>

outsideStart == <<segVars, apiVars, essVars, extVars, itemVars>>

-----------------------------------------------------------------------------
(* Bounds and program constants *)

MaxSentences == 2      \* longest sentence list handed to one request
MaxLen == 5            \* longest text handed to the segmenter

MIN_LENGTH == 40           \* analysis.py:189  len(sentence) < 40
SAMPLE_THRESHOLD == 4      \* analysis.py:221  sample_distance > 4
MINIMAL_THRESHOLD == 4     \* analysis.py:226  minimal_distance <= 4

-----------------------------------------------------------------------------
(* Texts as the analyzer sees them.  The analyzer uses a sentence only     *)
(* through len(sentence) and model.encode([sentence]); a sentence is       *)
(* therefore a record of its length and of the point its text is embedded  *)
(* at.  Two records are equal exactly when the texts are.                  *)

Vecs == {0, 2, 3}

\* Sentences handed to a request: one just below the minimum length, and one
\* of exactly the minimum length at every embedding point.
Sentence == {[len |-> MIN_LENGTH - 1, vec |-> 0]} \cup [len : {MIN_LENGTH}, vec : Vecs]

\* SentenceTransformer.encode: deterministic, one vector per text.
encode(sentence) == sentence.vec

\* Distance reported by collection.query (squared L2, the store's default).
Distance(a, b) == (a - b) * (a - b)

RECURSIVE SeqsUpTo(_, _)
SeqsUpTo(S, n) ==
    IF n = 0 THEN {<<>>}
    ELSE LET shorter == SeqsUpTo(S, n - 1)
         IN  shorter \cup {Append(q, x) : q \in {r \in shorter : Len(r) = n - 1}, x \in S}

-----------------------------------------------------------------------------
(* Reference collections: _populate_collection *)

ShortClause == [len |-> MIN_LENGTH - 1, vec |-> 0]
NearClause  == [len |-> MIN_LENGTH, vec |-> 0]
FarClause   == [len |-> MIN_LENGTH, vec |-> 3]

\* What extract_text + split_text_into_sections yield over the sample files
\* of one collection (<<>>: files missing, unreadable or empty).
FileClauseLists ==
    { <<>>, <<ShortClause>>, <<NearClause>>, <<FarClause>>,
      <<NearClause, FarClause>>, <<ShortClause, FarClause>> }

\* The hard-coded default sets (analysis.py:119-129), by length and embedding.
DefaultClauses(collection_name) ==
    IF collection_name = "minimal_requirements"
    THEN << [len |-> 64, vec |-> 0], [len |-> 68, vec |-> 2], [len |-> 51, vec |-> 3] >>
    ELSE << [len |-> 81, vec |-> 0], [len |-> 57, vec |-> 3] >>

\* collection.add(documents=[clause], embeddings=[emb], ids=[uuid4], metadatas=[...])
\* for every clause; the position in the sequence stands for the fresh uuid.
populate_collection_dup(collection, collection_name, extracted) ==
    LET all_sample_clauses ==
            IF extracted = <<>> THEN DefaultClauses(collection_name) ELSE extracted
    IN  collection \o
        [k \in 1..Len(all_sample_clauses) |->
            [document  |-> all_sample_clauses[k],
             embedding |-> encode(all_sample_clauses[1]),
             metadata  |-> "Beispiel"]]

populate_collection(collection, collection_name, extracted) ==
    LET all_sample_clauses ==
            IF extracted = <<>> THEN DefaultClauses(collection_name) ELSE extracted
    IN  collection \o
        [k \in 1..Len(all_sample_clauses) |->
            [document  |-> all_sample_clauses[k],
             embedding |-> encode(all_sample_clauses[k]),
             metadata  |-> "Beispiel"]]

\* collection.query(query_embeddings=[e], n_results=1): the stored entries at
\* least distance (several on a tie); empty for an empty collection.
query(collection, e) ==
    { k \in 1..Len(collection) :
        \A j \in 1..Len(collection) :
            Distance(collection[k].embedding, e) <= Distance(collection[j].embedding, e) }

-----------------------------------------------------------------------------
(* analyze_document_for_issues *)

\* A Python value of `category`: a list of strings or a bare string.
list_(items) == [type |-> "list", val |-> items]
str_(s)      == [type |-> "str", val |-> s]

\* analysis.py:182-184
NoSentencesEntry ==
    [text        |-> [literal |-> "Keine Saetze zum Analysieren gefunden."],
     category    |-> str_("fehlend"),
     description |-> "Das Dokument enthaelt keinen Text oder konnte nicht gelesen werden."]

\* analysis.py:248-252
NoIssuesEntry ==
    [text        |-> [literal |-> "Keine problematischen Klauseln gefunden."],
     category    |-> str_("fehlend"),
     description |-> "Der Mietvertrag enthaelt keine offensichtlich problematischen Bestimmungen."]

\* analysis.py:190-194
ShortEntry(sentence) ==
    [text |-> sentence, category |-> list_(<<>>), description |-> ""]

category_of_gte(sample_distance, minimal_distance) ==
    << IF sample_distance >= SAMPLE_THRESHOLD THEN "unusual" ELSE "match_found",
       IF minimal_distance <= MINIMAL_THRESHOLD THEN "invalid" ELSE "valid" >>

category_of_lt(sample_distance, minimal_distance) ==
    << IF sample_distance > SAMPLE_THRESHOLD THEN "unusual" ELSE "match_found",
       IF minimal_distance < MINIMAL_THRESHOLD THEN "invalid" ELSE "valid" >>

\* analysis.py:219-229
category_of(sample_distance, minimal_distance) ==
    << IF sample_distance > SAMPLE_THRESHOLD THEN "unusual" ELSE "match_found",
       IF minimal_distance <= MINIMAL_THRESHOLD THEN "invalid" ELSE "valid" >>

\* analysis.py:232-240
ClassifiedEntry(sentence, s, m) ==
    LET sample_distance  == Distance(sample_agreement[s].embedding, encode(sentence))
        minimal_distance == Distance(minimal_requirements[m].embedding, encode(sentence))
    IN  [text             |-> sentence,
         category         |-> list_(category_of(sample_distance, minimal_distance)),
         description      |-> "",
         sample_distance  |-> sample_distance,
         closest_sample   |-> sample_agreement[s].document,
         minimal_distance |-> minimal_distance,
         closest_minimal  |-> minimal_requirements[m].document]

after_loop_bare(res) == res

\* analysis.py:246-252: the default entry appended to an empty result list.
after_loop(res) == IF res = <<>> THEN <<NoIssuesEntry>> ELSE res

Call(op, arg) == [op |-> op, arg |-> arg]

is_short_lower(sentence) == sentence.len < MIN_LENGTH - 1

\* analysis.py:189
is_short(sentence) == sentence.len < MIN_LENGTH

\* As Request, but served whatever the state of the import.
RequestAnytime(ss) ==
    /\ pc \in {"idle", "done"}
    /\ sentences' = ss
    /\ i' = 1
    /\ results' = <<>>
    /\ calls' = <<>>
    /\ failed' = {}
    /\ IF ss = <<>>
       THEN ret' = <<NoSentencesEntry>> /\ pc' = "done"
       ELSE ret' = <<>> /\ pc' = "loop"
    /\ UNCHANGED <<minimal_requirements, sample_agreement>>
    /\ UNCHANGED outsideAnalyzer

\* analysis.py:162-184: entry of the handler.  The handler is reached through
\* the module-level analyzer (analysis.py:338, main.py:17), which exists only
\* once RentalAnalysis() has returned.
Request(ss) ==
    /\ startpc = "ready"
    /\ pc \in {"idle", "done"}
    /\ sentences' = ss
    /\ i' = 1
    /\ results' = <<>>
    /\ calls' = <<>>
    /\ failed' = {}
    /\ IF ss = <<>>
       THEN ret' = <<NoSentencesEntry>> /\ pc' = "done"
       ELSE ret' = <<>> /\ pc' = "loop"
    /\ UNCHANGED <<minimal_requirements, sample_agreement>>
    /\ UNCHANGED outsideAnalyzer

\* analysis.py:187-195: a short sentence is passed through.
PassShort ==
    /\ pc = "loop"
    /\ i <= Len(sentences)
    /\ is_short(sentences[i])
    /\ results' = Append(results, ShortEntry(sentences[i]))
    /\ i' = i + 1
    /\ UNCHANGED <<minimal_requirements, sample_agreement, sentences, ret,
                   calls, failed, pc>>
    /\ UNCHANGED outsideAnalyzer

\* analysis.py:197-240: the try block runs to its end.
Classify ==
    /\ pc = "loop"
    /\ i <= Len(sentences)
    /\ ~is_short(sentences[i])
    /\ \E s \in query(sample_agreement, encode(sentences[i])),
          m \in query(minimal_requirements, encode(sentences[i])) :
          results' = Append(results, ClassifiedEntry(sentences[i], s, m))
    /\ calls' = calls \o << Call("encode", sentences[i]),
                            Call("sample_agreement.query", sentences[i]),
                            Call("minimal_requirements.query", sentences[i]) >>
    /\ i' = i + 1
    /\ UNCHANGED <<minimal_requirements, sample_agreement, sentences, ret,
                   failed, pc>>
    /\ UNCHANGED outsideAnalyzer

\* The places of the try block that can raise: the three outbound calls, and
\* the [0][0] subscripts of analysis.py:212-216 when a query came back empty.
RaisePoints ==
    {"encode", "sample_agreement.query", "minimal_requirements.query"}
    \cup (IF sample_agreement = <<>> \/ minimal_requirements = <<>>
          THEN {"subscript"} ELSE {})

CallsUpTo(point, sentence) ==
    IF point = "encode" THEN << Call("encode", sentence) >>
    ELSE IF point = "sample_agreement.query"
    THEN << Call("encode", sentence), Call("sample_agreement.query", sentence) >>
    ELSE << Call("encode", sentence), Call("sample_agreement.query", sentence),
            Call("minimal_requirements.query", sentence) >>

\* As ClassifyRaises, but the exception ends the loop.
ClassifyRaisesAbort ==
    /\ pc = "loop"
    /\ i <= Len(sentences)
    /\ ~is_short(sentences[i])
    /\ \E point \in RaisePoints :
          calls' = calls \o CallsUpTo(point, sentences[i])
    /\ failed' = failed \cup {i}
    /\ ret' = after_loop(results)
    /\ pc' = "done"
    /\ UNCHANGED <<minimal_requirements, sample_agreement, sentences, results, i>>
    /\ UNCHANGED outsideAnalyzer

\* analysis.py:197-244: the try block raises; the sentence is skipped.
ClassifyRaises ==
    /\ pc = "loop"
    /\ i <= Len(sentences)
    /\ ~is_short(sentences[i])
    /\ \E point \in RaisePoints :
          calls' = calls \o CallsUpTo(point, sentences[i])
    /\ failed' = failed \cup {i}
    /\ i' = i + 1
    /\ UNCHANGED <<minimal_requirements, sample_agreement, sentences, results,
                   ret, pc>>
    /\ UNCHANGED outsideAnalyzer

\* analysis.py:246-254: after the loop.
Return ==
    /\ pc = "loop"
    /\ i > Len(sentences)
    /\ results' = after_loop(results)
    /\ ret' = after_loop(results)
    /\ pc' = "done"
    /\ UNCHANGED <<minimal_requirements, sample_agreement, sentences, i,
                   calls, failed>>
    /\ UNCHANGED outsideAnalyzer

-----------------------------------------------------------------------------
(* Specification of the analyzer *)

CollectionNames == {"minimal_requirements", "sample_agreement"}

NoRuns == [n \in CollectionNames |-> <<>>]

Started == startpc = "ready" /\ exists = CollectionNames /\ fileRuns = NoRuns

SegOff == text = <<>> /\ sections = <<>> /\ segpc = "off" /\ path = "none"

NoAnalyses == [id \in {} |-> {}]

NoResponse == [op |-> "none"]

ApiOff ==
    /\ ANALYSES = NoAnalyses
    /\ upload = {}
    /\ response = NoResponse
    /\ returned = {}

NoContent == [kind |-> "none"]

EssOff == content = NoContent /\ essential_results = NoContent /\ esspc = "off"

NoFile == [ext |-> <<>>, body |-> [kind |-> "none"]]

ExtOff == file_path = NoFile /\ page_num = 1 /\ extracted_text = <<>> /\ extpc = "off"

NoItems == [id \in {} |-> {}]

NoResult == [op |-> "none"]

ItemsOff == ITEMS_DB = NoItems /\ item_result = NoResult

\* analysis.py:36-57, 59-82, 147-156: the analyzer after construction, both
\* collections created afresh and populated.
Init ==
    /\ \E f \in FileClauseLists :
          minimal_requirements = populate_collection(<<>>, "minimal_requirements", f)
    /\ \E f \in FileClauseLists :
          sample_agreement = populate_collection(<<>>, "sample_agreement", f)
    /\ sentences = <<>>
    /\ i = 1
    /\ results = <<>>
    /\ ret = <<>>
    /\ calls = <<>>
    /\ failed = {}
    /\ pc = "idle"
    /\ SegOff
    /\ Started
    /\ ApiOff
    /\ EssOff
    /\ ExtOff
    /\ ItemsOff

Next ==
    \/ \E ss \in SeqsUpTo(Sentence, MaxSentences) : Request(ss)
    \/ PassShort
    \/ Classify
    \/ ClassifyRaises
    \/ Return

Spec == Init /\ [][Next]_vars

-----------------------------------------------------------------------------
(* Process start: RentalAnalysis.__init__ and _initialize_collections      *)
(* (analysis.py:36-156).  minimal_requirements and sample_agreement hold   *)
(* the entries of the collection of that name in the persistent store,     *)
(* <<>> while the collection does not exist; every path of the code rebinds *)
(* both handles by name before it populates them.                          *)

\* The message extract_text returns in place of the text of a file it cannot
\* read (file_utils.py:149-151), as the one clause the segmenter makes of it.
ErrorClause == [len |-> MIN_LENGTH, vec |-> 2]

Missing    == [kind |-> "missing", clauses |-> <<>>]      \* analysis.py:100-102
Raises     == [kind |-> "raises", clauses |-> <<>>]       \* analysis.py:113-114
Unreadable == [kind |-> "unreadable", clauses |-> <<>>]   \* file_utils.py:149-151
TextOf(clauses) == [kind |-> "text", clauses |-> clauses] \* analysis.py:106-107

\* What the sample files of a collection give at one start, file by file.
\* minimal_requirements has one sample file; the seven of sample_agreement
\* are represented by two.
FileRunsOf(collection_name) ==
    IF collection_name = "minimal_requirements"
    THEN { <<Missing>>, <<Raises>>, <<Unreadable>>, <<TextOf(<<>>)>>,
           <<TextOf(<<NearClause>>)>>, <<TextOf(<<ShortClause, FarClause>>)>> }
    ELSE { <<Missing, Missing>>, <<Missing, TextOf(<<FarClause>>)>>,
           <<TextOf(<<NearClause>>), TextOf(<<FarClause>>)>>,
           <<Unreadable, Missing>>, <<Raises, TextOf(<<>>)>> }

\* analysis.py:93-114: the clauses gathered over the sample files.
RECURSIVE extracted_clauses(_)
extracted_clauses(run) ==
    IF run = <<>> THEN <<>>
    ELSE LET file == Head(run)
             sample_clauses ==
                 IF file.kind = "text" THEN file.clauses
                 ELSE IF file.kind = "unreadable" THEN <<ErrorClause>>
                 ELSE <<>>
         IN  sample_clauses \o extracted_clauses(Tail(run))

\* Entries a collection holds from an earlier run of the process.
EarlierEntries(collection_name) ==
    populate_collection(<<>>, collection_name, <<>>)

\* analysis.py:51-52: get_or_create_collection for both names.
GetOrCreate ==
    /\ startpc = "new"
    /\ exists' = CollectionNames
    /\ startpc' = "initialize"
    /\ UNCHANGED <<minimal_requirements, sample_agreement, fileRuns>>
    /\ UNCHANGED <<sentences, i, results, ret, calls, failed, pc>>
    /\ UNCHANGED outsideStart

\* analysis.py:62-70: both collections deleted and created again.
Recreate ==
    /\ startpc = "initialize"
    /\ minimal_requirements' = <<>>
    /\ sample_agreement' = <<>>
    /\ exists' = CollectionNames
    /\ startpc' = "populate_minimal"
    /\ UNCHANGED fileRuns
    /\ UNCHANGED <<sentences, i, results, ret, calls, failed, pc>>
    /\ UNCHANGED outsideStart

\* The store calls of the try block, in order (analysis.py:63-70).
RecreateSteps ==
    << "list_collections", "delete_minimal", "delete_sample",
       "create_minimal", "create_sample" >>

\* analysis.py:62-75: store call number k of the try block raises; the except
\* branch takes whatever collections exist then, and creates the others.
RecreateRaises ==
    /\ startpc = "initialize"
    /\ \E k \in 1..Len(RecreateSteps) :
          /\ minimal_requirements' =
                 IF k <= 2 THEN minimal_requirements ELSE <<>>
          /\ sample_agreement' =
                 IF k <= 3 THEN sample_agreement ELSE <<>>
    /\ exists' = CollectionNames
    /\ startpc' = "populate_minimal"
    /\ UNCHANGED fileRuns
    /\ UNCHANGED <<sentences, i, results, ret, calls, failed, pc>>
    /\ UNCHANGED outsideStart

\* analysis.py:78-79, 147-150
PopulateMinimal ==
    /\ startpc = "populate_minimal"
    /\ \E run \in FileRunsOf("minimal_requirements") :
          /\ minimal_requirements' =
                 populate_collection(minimal_requirements, "minimal_requirements",
                                     extracted_clauses(run))
          /\ fileRuns' = [fileRuns EXCEPT !["minimal_requirements"] = run]
    /\ startpc' = "populate_sample"
    /\ UNCHANGED <<sample_agreement, exists>>
    /\ UNCHANGED <<sentences, i, results, ret, calls, failed, pc>>
    /\ UNCHANGED outsideStart

\* analysis.py:81-82, 152-156; then __init__ returns and the module-level
\* analyzer is bound (analysis.py:57, 338).
PopulateSample ==
    /\ startpc = "populate_sample"
    /\ \E run \in FileRunsOf("sample_agreement") :
          /\ sample_agreement' =
                 populate_collection(sample_agreement, "sample_agreement",
                                     extracted_clauses(run))
          /\ fileRuns' = [fileRuns EXCEPT !["sample_agreement"] = run]
    /\ startpc' = "ready"
    /\ UNCHANGED <<minimal_requirements, exists>>
    /\ UNCHANGED <<sentences, i, results, ret, calls, failed, pc>>
    /\ UNCHANGED outsideStart

\* analysis.py:132: model.encode raises inside _populate_collection; nothing
\* catches it, the import of the module fails and no analyzer exists.
PopulateCrashes ==
    /\ startpc \in {"populate_minimal", "populate_sample"}
    /\ startpc' = "crashed"
    /\ UNCHANGED <<minimal_requirements, sample_agreement, exists, fileRuns>>
    /\ UNCHANGED <<sentences, i, results, ret, calls, failed, pc>>
    /\ UNCHANGED outsideStart

SearchCalls(q) ==
    << Call("encode", q), Call("minimal_requirements.query", q),
       Call("sample_agreement.query", q) >>

\* As Search, but the query text is added to sample_agreement.
SearchAndStore ==
    /\ startpc = "ready"
    /\ pc \in {"idle", "done"}
    /\ upload = {}
    /\ \E q \in Sentence : \E n \in 1..Len(SearchCalls(q)) :
          /\ calls' = SubSeq(SearchCalls(q), 1, n)
          /\ sample_agreement' = populate_collection(sample_agreement, "sample_agreement", <<q>>)
    /\ UNCHANGED <<minimal_requirements, sentences, i, results, ret, failed, pc>>
    /\ UNCHANGED outsideAnalyzer

\* main.py:257-308: the search endpoint embeds the query and queries both
\* collections, or fails at one of these calls (main.py:306-308); it stores
\* nothing.
Search ==
    /\ startpc = "ready"
    /\ pc \in {"idle", "done"}
    /\ upload = {}
    /\ \E q \in Sentence : \E n \in 1..Len(SearchCalls(q)) :
          calls' = SubSeq(SearchCalls(q), 1, n)
    /\ UNCHANGED <<minimal_requirements, sample_agreement, sentences, i,
                   results, ret, failed, pc>>
    /\ UNCHANGED outsideAnalyzer

\* Requests of the start specification: the empty list and every list of one
\* sentence.
StartRequests == {<<>>} \cup {<<x>> : x \in Sentence}

\* The process starts on a store that holds, for each name, nothing or the
\* collection an earlier run left.
StartInit ==
    /\ startpc = "new"
    /\ exists \in SUBSET CollectionNames
    /\ minimal_requirements =
           IF "minimal_requirements" \in exists
           THEN EarlierEntries("minimal_requirements") ELSE <<>>
    /\ sample_agreement =
           IF "sample_agreement" \in exists
           THEN EarlierEntries("sample_agreement") ELSE <<>>
    /\ fileRuns = NoRuns
    /\ sentences = <<>>
    /\ i = 1
    /\ results = <<>>
    /\ ret = <<>>
    /\ calls = <<>>
    /\ failed = {}
    /\ pc = "idle"
    /\ SegOff
    /\ ApiOff
    /\ EssOff
    /\ ExtOff
    /\ ItemsOff

StartNext ==
    \/ GetOrCreate
    \/ Recreate
    \/ RecreateRaises
    \/ PopulateMinimal
    \/ PopulateSample
    \/ PopulateCrashes
    \/ \E ss \in StartRequests : Request(ss)
    \/ PassShort
    \/ Classify
    \/ ClassifyRaises
    \/ Return
    \/ Search

StartSpec == StartInit /\ [][StartNext]_vars

-----------------------------------------------------------------------------
(* The upload and read endpoints (main.py:199-255) over the analyzer.      *)
(* analyze_legal_text (main.py:164-178) hands the sections of the uploaded *)
(* text to analyze_document_for_issues; its own except branch              *)
(* (main.py:179-197) is not modelled, neither callee raises.               *)

MaxUploads == 2

\* str(uuid.uuid4()) (main.py:209), numbered.
Ids == 1..MaxUploads

\* The sections of the uploaded documents: a document without text, one
\* with a short line, one with a clause.
UploadedSections == {<<>>, <<ShortClause>>, <<NearClause>>}

StoredIds == DOMAIN ANALYSES

Response(op, status, body) == [op |-> op, status |-> status, body |-> body]

\* main.py:201-205: an upload without a file name.
UploadRejected ==
    /\ startpc = "ready"
    /\ upload = {}
    /\ response' = Response("upload", 400, [detail |-> "No selected file"])
    /\ UNCHANGED <<ANALYSES, upload, returned>>
    /\ UNCHANGED <<analyzerVars, segVars, startVars, essVars, extVars, itemVars>>

\* main.py:214-219, 241-242: writing the uploaded file raises.
UploadWriteFails ==
    /\ startpc = "ready"
    /\ upload = {}
    /\ response' = Response("upload", 500, [detail |-> "File upload failed"])
    /\ UNCHANGED <<ANALYSES, upload, returned>>
    /\ UNCHANGED <<analyzerVars, segVars, startVars, essVars, extVars, itemVars>>

\* main.py:208-225, 164-173: an id is drawn, the file saved, its text
\* extracted and split, and the sections handed to the analyzer.
UploadBegin ==
    /\ startpc = "ready"
    /\ upload = {}
    /\ pc \in {"idle", "done"}
    /\ Cardinality(StoredIds) < MaxUploads
    /\ \E id \in Ids \ StoredIds : upload' = {id}
    /\ \E ss \in UploadedSections :
          /\ sentences' = ss
          /\ IF ss = <<>>
             THEN ret' = <<NoSentencesEntry>> /\ pc' = "done"
             ELSE ret' = <<>> /\ pc' = "loop"
    /\ i' = 1
    /\ results' = <<>>
    /\ calls' = <<>>
    /\ failed' = {}
    /\ UNCHANGED <<minimal_requirements, sample_agreement>>
    /\ UNCHANGED <<ANALYSES, response, returned>>
    /\ UNCHANGED <<segVars, startVars, essVars, extVars, itemVars>>

\* The record upload_document builds (main.py:228-231).
analysis_response(analysis_id, res) == [id |-> analysis_id, results |-> res]

\* main.py:228-242: the record is stored, then written to the results folder;
\* when that write raises the handler answers 500 with the record stored.
UploadStore ==
    /\ pc = "done"
    /\ \E analysis_id \in upload :
          /\ ANALYSES' = (analysis_id :> analysis_response(analysis_id, ret)) @@ ANALYSES
          /\ \/ /\ response' = Response("upload", 201, [id |-> analysis_id])
                /\ returned' = returned \cup {analysis_id}
             \/ /\ response' = Response("upload", 500, [detail |-> "File upload failed"])
                /\ UNCHANGED returned
    /\ upload' = {}
    /\ UNCHANGED <<analyzerVars, segVars, startVars, essVars, extVars, itemVars>>

\* main.py:55-58: an AnalysisItem takes a str for category.
IsAnalysisItem(entry) == entry.category.type = "str"

\* main.py:63-65, 244: the value get_analysis returns is validated against
\* AnalysisResponse before it is sent.
IsAnalysisResponse(body) ==
    \A k \in 1..Len(body.results) : IsAnalysisItem(body.results[k])

Answer(analysis_id, status, body) ==
    [op |-> "get_analysis", arg |-> analysis_id, status |-> status, body |-> body]

\* main.py:244-255: not found, or the stored id and results; a value that is
\* no AnalysisResponse is answered with 500 by the framework.
get_analysis_response(analysis_id) ==
    IF analysis_id \notin StoredIds
    THEN Answer(analysis_id, 404, [detail |-> "Analysis not found"])
    ELSE LET body == [id |-> ANALYSES[analysis_id].id,
                      results |-> ANALYSES[analysis_id].results]
         IN  IF IsAnalysisResponse(body)
             THEN Answer(analysis_id, 200, body)
             ELSE Answer(analysis_id, 500, [detail |-> "Internal Server Error"])

\* main.py:244-255
get_analysis ==
    /\ startpc = "ready"
    /\ upload = {}
    /\ \E analysis_id \in Ids : response' = get_analysis_response(analysis_id)
    /\ UNCHANGED <<ANALYSES, upload, returned>>
    /\ UNCHANGED <<analyzerVars, segVars, startVars, essVars, extVars, itemVars>>

\* The server after the import of main.py: analyzer built (the sample file of
\* minimal_requirements missing, one clause read for sample_agreement),
\* nothing stored.
ApiInit ==
    /\ minimal_requirements = populate_collection(<<>>, "minimal_requirements", <<>>)
    /\ sample_agreement = populate_collection(<<>>, "sample_agreement", <<NearClause>>)
    /\ sentences = <<>>
    /\ i = 1
    /\ results = <<>>
    /\ ret = <<>>
    /\ calls = <<>>
    /\ failed = {}
    /\ pc = "idle"
    /\ SegOff
    /\ Started
    /\ ApiOff
    /\ EssOff
    /\ ExtOff
    /\ ItemsOff

ApiNext ==
    \/ UploadRejected
    \/ UploadWriteFails
    \/ UploadBegin
    \/ PassShort
    \/ Classify
    \/ ClassifyRaises
    \/ Return
    \/ UploadStore
    \/ get_analysis
    \/ Search

ApiSpec == ApiInit /\ [][ApiNext]_vars

-----------------------------------------------------------------------------
(* analyze_essentials (analysis.py:256-335).  The text the language        *)
(* service answers with is a sequence of tokens: an opening fence with     *)
(* the json tag, a bare fence, a JSON object, the JSON value null, a word  *)
(* of prose, white space.                                                  *)

MaxTokens == 4

FenceJson == "FENCE_JSON"   \* three backquotes followed by json
Fence     == "FENCE"        \* three backquotes
Object    == "{...}"
Null      == "null"
Prose     == "x"
Blank     == " "

Tokens == {FenceJson, Fence, Object, Null, Prose, Blank}

\* What openai.chat.completions.create and the read of
\* response.choices[0].message.content give (analysis.py:295-304): an
\* exception, no content, or a text.
Raised       == [kind |-> "raises"]
NoneContent  == [kind |-> "None"]
Text(tokens) == [kind |-> "text", text |-> tokens]

Contents ==
    {Raised, NoneContent} \cup {Text(tokens) : tokens \in SeqsUpTo(Tokens, MaxTokens)}

\* str.find of the tagged fence (analysis.py:310): position of the first token holding it, 0 if none.
find_fence_json(response_text) ==
    LET at == {k \in 1..Len(response_text) : response_text[k] = FenceJson}
    IN  IF at = {} THEN 0 ELSE CHOOSE k \in at : \A j \in at : k <= j

\* str.rfind of the bare fence (analysis.py:311): position of the last token holding it; the opening
\* fence with its tag holds it too.
rfind_fence(response_text) ==
    LET at == {k \in 1..Len(response_text) : response_text[k] \in {Fence, FenceJson}}
    IN  IF at = {} THEN 0 ELSE CHOOSE k \in at : \A j \in at : k >= j

strip_blank(tokens) ==
    LET keep == {k \in 1..Len(tokens) : tokens[k] # Blank}
    IN  IF keep = {} THEN <<>>
        ELSE SubSeq(tokens, CHOOSE k \in keep : \A j \in keep : k <= j,
                            CHOOSE k \in keep : \A j \in keep : k >= j)

\* As json_str, but everything after the opening fence is kept.
json_str_to_end(response_text) ==
    strip_blank(SubSeq(response_text, find_fence_json(response_text) + 1,
                       Len(response_text)))

\* analysis.py:310-312: the slice between the opening fence and the last
\* fence, stripped; empty when the last fence is the opening one.
json_str(response_text) ==
    strip_blank(SubSeq(response_text, find_fence_json(response_text) + 1,
                       rfind_fence(response_text) - 1))

\* json.loads: one JSON value with white space around it, else JSONDecodeError.
json_loads(tokens) ==
    LET doc == strip_blank(tokens)
    IN  IF Len(doc) = 1 /\ doc[1] \in {Object, Null}
        THEN [ok |-> TRUE,
              value |-> IF doc[1] = Object
                        THEN [type |-> "dict", object |-> Object]
                        ELSE [type |-> "NoneType"]]
        ELSE [ok |-> FALSE]

\* analysis.py:317-321
InvalidJson(response_text) ==
    [type |-> "dict", error |-> "Invalid JSON response from OpenAI",
     response |-> response_text]

\* analysis.py:328-333
StatusError == [type |-> "dict", status |-> "error"]

\* analysis.py:307-321: the inner try block on a text.
parse_response(response_text) ==
    LET parsed == IF find_fence_json(response_text) # 0
                  THEN json_loads(json_str(response_text))
                  ELSE json_loads(response_text)
    IN  IF parsed.ok THEN parsed.value ELSE InvalidJson(response_text)

\* analysis.py:274-304, 326-333: the call raises, or the content is None and
\* the membership test at analysis.py:309 raises TypeError; the outer except answers.
EssServiceFails ==
    /\ esspc = "start"
    /\ content.kind \in {"raises", "None"}
    /\ essential_results' = StatusError
    /\ esspc' = "done"
    /\ UNCHANGED content
    /\ UNCHANGED <<analyzerVars, segVars, startVars, apiVars, extVars, itemVars>>

\* analysis.py:309-313, 324: the text holds the tagged fence.
EssFenced ==
    /\ esspc = "start"
    /\ content.kind = "text"
    /\ find_fence_json(content.text) # 0
    /\ essential_results' = parse_response(content.text)
    /\ esspc' = "done"
    /\ UNCHANGED content
    /\ UNCHANGED <<analyzerVars, segVars, startVars, apiVars, extVars, itemVars>>

\* analysis.py:314-316, 324: the text is parsed as it is.
EssDirect ==
    /\ esspc = "start"
    /\ content.kind = "text"
    /\ find_fence_json(content.text) = 0
    /\ essential_results' = parse_response(content.text)
    /\ esspc' = "done"
    /\ UNCHANGED content
    /\ UNCHANGED <<analyzerVars, segVars, startVars, apiVars, extVars, itemVars>>

EssInit ==
    /\ content \in Contents
    /\ essential_results = NoContent
    /\ esspc = "start"
    /\ minimal_requirements = populate_collection(<<>>, "minimal_requirements", <<>>)
    /\ sample_agreement = populate_collection(<<>>, "sample_agreement", <<>>)
    /\ sentences = <<>>
    /\ i = 1
    /\ results = <<>>
    /\ ret = <<>>
    /\ calls = <<>>
    /\ failed = {}
    /\ pc = "idle"
    /\ SegOff
    /\ Started
    /\ ApiOff
    /\ ExtOff
    /\ ItemsOff

EssNext ==
    \/ EssServiceFails
    \/ EssFenced
    \/ EssDirect

EssSpec == EssInit /\ [][EssNext]_vars

-----------------------------------------------------------------------------
(* Properties of analyze_document_for_issues, checked under Spec *)

Done == pc = "done"

\* Positions 1..n of the input whose try block did not raise, in order.
Survivors(n) == SelectSeq([k \in 1..n |-> k], LAMBDA k : k \notin failed)

AllSurvivors == Survivors(Len(sentences))

\* The entry of the returned list that belongs to input position k.
EntryOf(k) == ret[Len(Survivors(k))]

\* Every surviving position has its own entry, in input order.
OnePerSurvivor ==
    /\ Len(ret) = Len(AllSurvivors)
    /\ \A k \in 1..Len(ret) : ret[k].text = sentences[AllSurvivors[k]]

\* Least distance from a point to the entries of a collection.
NearestDistance(collection, e) ==
    LET ds == {Distance(collection[k].embedding, e) : k \in 1..Len(collection)}
    IN  CHOOSE d \in ds : \A x \in ds : d <= x

\* Input positions that were classified: long enough, and nothing raised.
Classified == {k \in 1..Len(sentences) :
                  sentences[k].len >= MIN_LENGTH /\ k \notin failed}

IsLabelPair(category) == category.type = "list" /\ Len(category.val) = 2

\* C1: for every segment of at least 40 characters whose embedding and both
\* queries succeed, the first label is `unusual` exactly when the nearest
\* distance to sample_agreement is strictly above the threshold and
\* `match_found` otherwise (also at the threshold itself), whatever the
\* distance to minimal_requirements is.
C1_Axis1 ==
    Done => \A k \in Classified :
        /\ Len(Survivors(k)) <= Len(ret)
        /\ IsLabelPair(EntryOf(k).category)
        /\ IF NearestDistance(sample_agreement, encode(sentences[k])) > SAMPLE_THRESHOLD
           THEN EntryOf(k).category.val[1] = "unusual"
           ELSE EntryOf(k).category.val[1] = "match_found"

\* One result holds a segment exactly at the sample threshold labelled
\* match_found and a segment above it labelled unusual, both with the same
\* second label.
C1_Witness ==
    /\ Done
    /\ \E a, b \in Classified :
          /\ EntryOf(a).sample_distance = SAMPLE_THRESHOLD
          /\ EntryOf(a).category.val[1] = "match_found"
          /\ EntryOf(b).sample_distance > SAMPLE_THRESHOLD
          /\ EntryOf(b).category.val[1] = "unusual"
          /\ EntryOf(a).category.val[2] = EntryOf(b).category.val[2]

\* C2: for every segment of at least 40 characters whose embedding and both
\* queries succeed, the second label is `invalid` exactly when the nearest
\* distance to minimal_requirements is at or below the threshold and `valid`
\* otherwise, whatever the distance to sample_agreement is.
C2_Axis2 ==
    Done => \A k \in Classified :
        /\ Len(Survivors(k)) <= Len(ret)
        /\ IsLabelPair(EntryOf(k).category)
        /\ IF NearestDistance(minimal_requirements, encode(sentences[k])) <= MINIMAL_THRESHOLD
           THEN EntryOf(k).category.val[2] = "invalid"
           ELSE EntryOf(k).category.val[2] = "valid"

\* One result holds a segment exactly at the minimal threshold labelled
\* invalid and a segment above it labelled valid, both with the same first
\* label.
C2_Witness ==
    /\ Done
    /\ \E a, b \in Classified :
          /\ EntryOf(a).minimal_distance = MINIMAL_THRESHOLD
          /\ EntryOf(a).category.val[2] = "invalid"
          /\ EntryOf(b).minimal_distance > MINIMAL_THRESHOLD
          /\ EntryOf(b).category.val[2] = "valid"
          /\ EntryOf(a).category.val[1] = EntryOf(b).category.val[1]

\* C3: every input segment shorter than 40 characters is in the output with
\* its text unchanged and an empty category list, at its place among the
\* entries that were kept; it is never dropped, and no call to the embedding
\* model or to a collection carries it.
C3_ShortPassedThrough ==
    Done =>
        /\ \A k \in 1..Len(sentences) :
              sentences[k].len < MIN_LENGTH =>
                  /\ k \notin failed
                  /\ Len(Survivors(k)) <= Len(ret)
                  /\ EntryOf(k).text = sentences[k]
                  /\ EntryOf(k).category = list_(<<>>)
        /\ \A c \in 1..Len(calls) : calls[c].arg.len >= MIN_LENGTH

\* A short segment is returned right after a segment that was skipped on an
\* exception, and the only calls made carry the long segment.
C3_Witness ==
    /\ Done
    /\ Len(sentences) = 2
    /\ sentences[2].len < MIN_LENGTH
    /\ failed = {1}
    /\ calls # <<>>
    /\ ret = <<ShortEntry(sentences[2])>>

IsSentinel(entry) == entry \in {NoSentencesEntry, NoIssuesEntry}

\* C4: the returned list is never empty: for an empty input, or when every
\* segment was skipped on an exception, it is exactly one sentinel entry;
\* otherwise it has one entry per surviving segment and no sentinel.
C4_NeverEmpty ==
    Done =>
        /\ ret # <<>>
        /\ IF AllSurvivors = <<>>
           THEN Len(ret) = 1 /\ IsSentinel(ret[1])
           ELSE OnePerSurvivor /\ \A k \in 1..Len(ret) : ~IsSentinel(ret[k])

\* Every segment of a non-empty input raised and the one sentinel came back.
C4_Witness ==
    /\ Done
    /\ Len(sentences) = 2
    /\ failed = {1, 2}
    /\ ret = <<NoIssuesEntry>>

Texts(entries) == [k \in 1..Len(entries) |-> entries[k].text]

SurvivorTexts == [k \in 1..Len(AllSurvivors) |-> sentences[AllSurvivors[k]]]

\* C5 as first stated: when embedding or querying fails for some segments,
\* the texts of the output are the input segments with exactly the failed
\* ones removed, in the original order.
C5_Original ==
    (Done /\ failed # {}) => Texts(ret) = SurvivorTexts

\* C5, amended: when embedding or querying fails for some segments, the loop
\* still visits every segment, and the texts of the output are the input
\* segments with exactly the failed ones removed, in the original order,
\* unless every segment failed: then the output is the single sentinel entry.
C5_FailuresSkipped ==
    (Done /\ failed # {}) =>
        /\ i = Len(sentences) + 1
        /\ IF AllSurvivors = <<>>
           THEN ret = <<NoIssuesEntry>>
           ELSE Texts(ret) = SurvivorTexts

\* The first segment raised and the second, a long one, was still classified.
C5_Witness ==
    /\ Done
    /\ Len(sentences) = 2
    /\ failed = {1}
    /\ sentences[2].len >= MIN_LENGTH
    /\ Len(ret) = 1
    /\ ret[1].text = sentences[2]
    /\ IsLabelPair(ret[1].category)

\* C6: in every returned entry `category` is a list of strings, empty for a
\* passed-through short segment and the two labels, first axis first, for a
\* classified one; it is never a single bare tag.
C6_CategoryIsList ==
    Done => \A k \in 1..Len(ret) :
        /\ ret[k].category.type = "list"
        /\ \/ ret[k].category.val = <<>>
           \/ /\ Len(ret[k].category.val) = 2
              /\ ret[k].category.val[1] \in {"unusual", "match_found"}
              /\ ret[k].category.val[2] \in {"invalid", "valid"}

\* Input positions that survived and whose text is a document stored in
\* sample_agreement.
StoredInSample ==
    {k \in 1..Len(sentences) :
        /\ k \notin failed
        /\ \E j \in 1..Len(sample_agreement) : sample_agreement[j].document = sentences[k]}

\* C7 as first stated: classifying a segment whose text is identical to a
\* clause stored in sample_agreement yields the first label match_found.
C7_Original ==
    Done => \A k \in StoredInSample :
        /\ IsLabelPair(EntryOf(k).category)
        /\ EntryOf(k).category.val[1] = "match_found"

\* C7, amended: classifying a segment whose text is identical to a clause of
\* at least 40 characters stored in sample_agreement yields nearest distance
\* 0 and the first label match_found; a stored clause of fewer than 40
\* characters is passed through with an empty category.
C7_StoredClauseMatches ==
    Done => \A k \in StoredInSample :
        IF sentences[k].len >= MIN_LENGTH
        THEN /\ IsLabelPair(EntryOf(k).category)
             /\ EntryOf(k).sample_distance = 0
             /\ EntryOf(k).category.val[1] = "match_found"
        ELSE EntryOf(k).category = list_(<<>>)

\* A segment equal to the second of two stored clauses was classified as
\* match_found at distance 0.
C7_Witness ==
    /\ Done
    /\ Len(sample_agreement) = 2
    /\ \E k \in StoredInSample :
          /\ sample_agreement[2].document = sentences[k]
          /\ sample_agreement[1].document # sentences[k]
          /\ sentences[k].len >= MIN_LENGTH
          /\ EntryOf(k).sample_distance = 0
          /\ EntryOf(k).category.val[1] = "match_found"

-----------------------------------------------------------------------------
(* split_text_into_sections (file_utils.py:21-112).  A text is a sequence  *)
(* of characters; the alphabet has one character of every class the code   *)
(* tells apart.                                                            *)

NL == "\n"
Chars == {"D", "r", "1", ".", "?", "§", " ", NL}

IsSpace(c) == c \in {" ", NL}       \* \s, str.strip()
IsUpper(c) == c \in {"D"}           \* [A-ZÄÖÜ]

RECURSIVE lstrip(_)
lstrip(s) == IF s # <<>> /\ IsSpace(Head(s)) THEN lstrip(Tail(s)) ELSE s

RECURSIVE rstrip(_)
rstrip(s) ==
    IF s # <<>> /\ IsSpace(s[Len(s)]) THEN rstrip(SubSeq(s, 1, Len(s) - 1)) ELSE s

\* str.strip()
strip(s) == rstrip(lstrip(s))

\* text.split('\n')
RECURSIVE split_newline(_)
split_newline(s) ==
    IF \A k \in 1..Len(s) : s[k] # NL THEN <<s>>
    ELSE LET k == CHOOSE n \in 1..Len(s) :
                     s[n] = NL /\ \A j \in 1..(n - 1) : s[j] # NL
         IN  <<SubSeq(s, 1, k - 1)>> \o split_newline(SubSeq(s, k + 1, Len(s)))

\* file_utils.py:29  [p.strip() for p in text.split('\n') if p.strip()]
paragraphs(t) ==
    LET pieces == split_newline(t)
        kept   == SelectSeq(pieces, LAMBDA p : strip(p) # <<>>)
    IN  [k \in 1..Len(kept) |-> strip(kept[k])]

\* file_utils.py:44: the widths of the alternatives of the look-behind
\* [0-9] | [A-Za-z]\.[A-Za-z] | Nr | Abs | Art | Str | Dr | Prof | bzw | [0-9].
\* The re module compiles a look-behind only when every alternative has the
\* same width; otherwise re.finditer raises re.error.
LookbehindWidths == {1, 3, 2, 3, 3, 3, 2, 4, 3, 1}
pattern_compiles == Cardinality(LookbehindWidths) = 1

\* First position at or after k that holds no whitespace (Len + 1 if none).
RECURSIVE skip_space(_, _)
skip_space(para, k) ==
    IF k <= Len(para) /\ IsSpace(para[k]) THEN skip_space(para, k + 1) ELSE k

\* file_utils.py:99  r'\.\s+(?=[A-ZÄÖÜ])' tried at position p: the position
\* just after the match, 0 when there is no match at p.
match_end(para, p) ==
    IF para[p] = "." /\ p < Len(para) /\ IsSpace(para[p + 1])
    THEN LET e == skip_space(para, p + 1)
         IN  IF e <= Len(para) /\ IsUpper(para[e]) THEN e ELSE 0
    ELSE 0

RECURSIVE fallback_para_noperiod(_, _, _, _)
fallback_para_noperiod(para, p, current_pos, result) ==
    IF p > Len(para)
    THEN LET last_sentence == strip(SubSeq(para, current_pos, Len(para)))
         IN  IF current_pos <= Len(para) /\ last_sentence # <<>>
             THEN Append(result, last_sentence) ELSE result
    ELSE LET e == match_end(para, p)
         IN  IF e = 0
             THEN fallback_para_noperiod(para, p + 1, current_pos, result)
             ELSE LET sentence == strip(SubSeq(para, current_pos, p - 1))
                  IN  fallback_para_noperiod(para, e, e,
                         IF sentence # <<>> THEN Append(result, sentence) ELSE result)

\* file_utils.py:97-110: one paragraph of the fallback, scanning from p with
\* the current sentence starting at current_pos.
RECURSIVE fallback_para(_, _, _, _)
fallback_para(para, p, current_pos, result) ==
    IF p > Len(para)
    THEN LET last_sentence == strip(SubSeq(para, current_pos, Len(para)))
         IN  IF current_pos <= Len(para) /\ last_sentence # <<>>
             THEN Append(result, last_sentence) ELSE result
    ELSE LET e == match_end(para, p)
         IN  IF e = 0
             THEN fallback_para(para, p + 1, current_pos, result)
             ELSE LET sentence == strip(SubSeq(para, current_pos, p))
                  IN  fallback_para(para, e, e,
                         IF sentence # <<>> THEN Append(result, sentence) ELSE result)

\* file_utils.py:92-112
RECURSIVE fallback_paras(_, _)
fallback_paras(pieces, result) ==
    IF pieces = <<>> THEN result
    ELSE IF strip(Head(pieces)) = <<>>
    THEN fallback_paras(Tail(pieces), result)
    ELSE fallback_paras(Tail(pieces), fallback_para(Head(pieces), 1, 1, result))

fallback_split(t) == fallback_paras(split_newline(t), <<>>)

\* As SplitEmpty, but one blank segment is returned.
SplitEmptySentinel ==
    /\ segpc = "start"
    /\ text = <<>>
    /\ sections' = << <<" ">> >>
    /\ path' = "empty"
    /\ segpc' = "done"
    /\ UNCHANGED text
    /\ UNCHANGED outsideSegmenter

\* file_utils.py:24-25
SplitEmpty ==
    /\ segpc = "start"
    /\ text = <<>>
    /\ sections' = <<>>
    /\ path' = "empty"
    /\ segpc' = "done"
    /\ UNCHANGED text
    /\ UNCHANGED outsideSegmenter

\* file_utils.py:27-87: the try block runs to its end.  re.finditer is reached
\* once per paragraph, so with a pattern that does not compile the block
\* completes only when there is no paragraph, and then both loops are skipped.
SplitTry ==
    /\ segpc = "start"
    /\ text # <<>>
    /\ paragraphs(text) = <<>> \/ pattern_compiles
    /\ paragraphs(text) = <<>>
    /\ sections' = <<>>
    /\ path' = "try"
    /\ segpc' = "done"
    /\ UNCHANGED text
    /\ UNCHANGED outsideSegmenter

\* file_utils.py:46, 89-112: re.finditer raises on the first paragraph and the
\* except branch splits the text again.
SplitFallback ==
    /\ segpc = "start"
    /\ text # <<>>
    /\ paragraphs(text) # <<>>
    /\ ~pattern_compiles
    /\ sections' = fallback_split(text)
    /\ path' = "except"
    /\ segpc' = "done"
    /\ UNCHANGED text
    /\ UNCHANGED outsideSegmenter

SegInit ==
    /\ text \in SeqsUpTo(Chars, MaxLen)
    /\ sections = <<>>
    /\ segpc = "start"
    /\ path = "none"
    /\ minimal_requirements = populate_collection(<<>>, "minimal_requirements", <<>>)
    /\ sample_agreement = populate_collection(<<>>, "sample_agreement", <<>>)
    /\ sentences = <<>>
    /\ i = 1
    /\ results = <<>>
    /\ ret = <<>>
    /\ calls = <<>>
    /\ failed = {}
    /\ pc = "idle"
    /\ Started
    /\ ApiOff
    /\ EssOff
    /\ ExtOff
    /\ ItemsOff

SegNext == SplitEmpty \/ SplitTry \/ SplitFallback

SegSpec == SegInit /\ [][SegNext]_vars

-----------------------------------------------------------------------------
(* Properties of split_text_into_sections, checked under SegSpec *)

SegDone == segpc = "done"

RECURSIVE Flatten(_)
Flatten(segs) == IF segs = <<>> THEN <<>> ELSE Head(segs) \o Flatten(Tail(segs))

NonSpace(s) == SelectSeq(s, LAMBDA c : ~IsSpace(c))

\* a can be obtained from b by deleting characters.
RECURSIVE IsSubsequence(_, _)
IsSubsequence(a, b) ==
    IF a = <<>> THEN TRUE
    ELSE IF b = <<>> THEN FALSE
    ELSE IF Head(a) = Head(b) THEN IsSubsequence(Tail(a), Tail(b))
    ELSE IsSubsequence(a, Tail(b))

\* a occurs in b as a run of adjacent characters.
IsInfix(a, b) ==
    \E k \in 1..(Len(b) - Len(a) + 1) : SubSeq(b, k, k + Len(a) - 1) = a

\* C8 as first stated: for every non-empty text the result is non-empty and
\* its concatenation contains every non-whitespace character of the text in
\* the original order.
C8_Original ==
    (SegDone /\ text # <<>>) =>
        /\ sections # <<>>
        /\ IsSubsequence(NonSpace(text), Flatten(sections))

\* C8, amended: for every text that holds at least one non-whitespace
\* character the result is non-empty and its concatenation contains every
\* non-whitespace character of the text in the original order; a text of
\* whitespace only yields the empty sequence.
C8_NoCharacterLost ==
    SegDone =>
        IF NonSpace(text) # <<>>
        THEN /\ sections # <<>>
             /\ IsSubsequence(NonSpace(text), Flatten(sections))
        ELSE sections = <<>>

\* A text was cut in two at a period followed by a blank and a capital, and
\* the two segments together hold exactly its non-whitespace characters.
C8_Witness ==
    /\ SegDone
    /\ path = "except"
    /\ Len(sections) = 2
    /\ \E k \in 1..Len(text) : text[k] = " "
    /\ \E k \in 1..Len(text) : text[k] = "."
    /\ Flatten(sections) = NonSpace(text)

\* file_utils.py:78  re.match(r'^[0-9§]+\.?$', current) or len(current) < 3
IsMarkerFragment(s) ==
    \/ Len(s) < 3
    \/ LET body == IF s[Len(s)] = "." THEN SubSeq(s, 1, Len(s) - 1) ELSE s
       IN  body # <<>> /\ \A k \in 1..Len(body) : body[k] \in {"1", "§"}

\* C9: a fragment that is only a number or section marker, or is shorter than
\* 3 characters, is concatenated onto the fragment that follows it: no
\* returned segment that has a successor consists of such a fragment alone.
C9_MarkersMerged ==
    SegDone => \A k \in 1..(Len(sections) - 1) : ~IsMarkerFragment(sections[k])

IsLetter(c) == c \in {"D", "r"}

RECURSIVE skip_blank(_, _)
skip_blank(t, k) == IF k <= Len(t) /\ t[k] = " " THEN skip_blank(t, k + 1) ELSE k

\* The period at p directly follows a digit, the abbreviation Dr or a
\* single-letter dotted abbreviation, and is followed inside its paragraph by
\* blanks and a capital letter.
ExceptedPeriod(t, p) ==
    /\ t[p] = "."
    /\ p >= 2
    /\ \/ t[p - 1] = "1"
       \/ p >= 3 /\ t[p - 2] = "D" /\ t[p - 1] = "r"
       \/ p >= 4 /\ IsLetter(t[p - 3]) /\ t[p - 2] = "." /\ IsLetter(t[p - 1])
    /\ p < Len(t)
    /\ t[p + 1] = " "
    /\ skip_blank(t, p + 1) <= Len(t)
    /\ IsUpper(t[skip_blank(t, p + 1)])

\* C10: no sentence boundary is placed at a period that directly follows an
\* abbreviation of the exception list or a digit, even when blanks and a
\* capital letter follow: the text on both sides stays in one segment.
C10_NoSplitAfterAbbreviation ==
    SegDone => \A p \in 1..Len(text) :
        ExceptedPeriod(text, p) =>
            \E k \in 1..Len(sections) :
                IsInfix(SubSeq(text, p - 1, skip_blank(text, p + 1)), sections[k])

\* The mark at p is not preceded by a digit, by the abbreviation Dr or by a
\* single-letter dotted abbreviation.
NotAfterException(t, p) ==
    /\ ~(p >= 2 /\ t[p - 1] = "1")
    /\ ~(p >= 3 /\ t[p - 2] = "D" /\ t[p - 1] = "r")
    /\ ~(p >= 4 /\ IsLetter(t[p - 3]) /\ t[p - 2] = "." /\ IsLetter(t[p - 1]))

\* Positions where C11 puts a sentence boundary: a period or question mark
\* outside the exception list, followed inside its paragraph by blanks and a
\* capital letter.
StatedBoundaries(t) ==
    {p \in 1..Len(t) :
        /\ t[p] \in {".", "?"}
        /\ NotAfterException(t, p)
        /\ p < Len(t)
        /\ t[p + 1] = " "
        /\ skip_blank(t, p + 1) <= Len(t)
        /\ IsUpper(t[skip_blank(t, p + 1)])}

\* C11: within each non-empty paragraph a sentence boundary is placed at every
\* period, question mark or exclamation mark that is followed by whitespace
\* and a capital letter and is not covered by the exception list, and nowhere
\* else: the text is cut at each such position, and there are as many segments
\* as paragraphs plus such positions.
C11_BoundariesAsStated ==
    SegDone =>
        /\ \A p \in StatedBoundaries(text) :
              ~\E k \in 1..Len(sections) :
                  IsInfix(SubSeq(text, p, skip_blank(text, p + 1)), sections[k])
        /\ Len(sections) = Len(paragraphs(text)) + Cardinality(StatedBoundaries(text))

IsNumeric(s) == \A k \in 1..Len(s) : s[k] = "1"

\* C12: every returned segment ends with a period, exclamation mark or
\* question mark, unless it is purely numeric.
C12_TerminalPunctuation ==
    SegDone => \A k \in 1..Len(sections) :
        \/ sections[k][Len(sections[k])] \in {".", "?"}
        \/ IsNumeric(sections[k])

\* C13: the empty string yields the empty sequence, returned at once, with no
\* sentinel segment.
C13_EmptyInput ==
    (SegDone /\ text = <<>>) => (sections = <<>> /\ path = "empty")

\* The empty string went through the segmenter.
C13_Witness == SegDone /\ text = <<>> /\ path = "empty"


-----------------------------------------------------------------------------
(* Properties of process start, checked under StartSpec *)

\* The rebuild of the named collection has run at this start.
Populated(collection_name) ==
    IF collection_name = "minimal_requirements"
    THEN startpc \in {"populate_sample", "ready"}
    ELSE startpc = "ready"

EntriesOf(collection_name) ==
    IF collection_name = "minimal_requirements"
    THEN minimal_requirements ELSE sample_agreement

\* analysis.py:117: the sample files of the run gave no clause at all.
YieldsNothing(run) == extracted_clauses(run) = <<>>

AddedThisStart(collection_name) ==
    populate_collection(<<>>, collection_name,
                        extracted_clauses(fileRuns[collection_name]))

\* C15: once _initialize_collections has finished, each collection holds
\* exactly the clauses this start added, one entry per clause, and nothing an
\* earlier run left.
C15_RebuiltFromScratch ==
    startpc = "ready" =>
        \A n \in CollectionNames : EntriesOf(n) = AddedThisStart(n)

IsSuffix(a, b) ==
    /\ Len(a) <= Len(b)
    /\ SubSeq(b, Len(b) - Len(a) + 1, Len(b)) = a

\* C16: a request is in progress, or a query has been made, only after the
\* start has finished with both collections: each exists, is not empty and
\* holds all this start added to it.
C16_NoRequestBeforeRebuild ==
    (pc # "idle" \/ calls # <<>>) =>
        /\ startpc = "ready"
        /\ exists = CollectionNames
        /\ \A n \in CollectionNames :
              /\ EntriesOf(n) # <<>>
              /\ IsSuffix(AddedThisStart(n), EntriesOf(n))

C16_Witness ==
    /\ Done
    /\ \E k \in 1..Len(calls) : calls[k].op = "sample_agreement.query"
    /\ fileRuns["sample_agreement"] # <<>>
    /\ startpc = "ready"


-----------------------------------------------------------------------------
(* Properties of the endpoints, checked under ApiSpec *)

\* C17: once the analyzer is built, no step of a request (an upload with its
\* analysis, a read of a stored analysis, a search) adds, changes or removes
\* an entry of either collection.
C17_RequestsLeaveCollections ==
    [][startpc = "ready" =>
          /\ minimal_requirements' = minimal_requirements
          /\ sample_agreement' = sample_agreement]_vars

C17_Witness ==
    /\ StoredIds # {}
    /\ response.op = "get_analysis"
    /\ response.status = 200
    /\ Len(calls) = Len(SearchCalls(NearClause))
    /\ calls[2].op = "minimal_requirements.query"

\* C20: every stored analysis consists of the document id, the list of
\* results and an essentials record.
C20_StoredResultHasEssentials ==
    \A analysis_id \in StoredIds :
        /\ DOMAIN ANALYSES[analysis_id] = {"id", "results", "essentials"}
        /\ ANALYSES[analysis_id].id = analysis_id


\* C23: a stored analysis is never changed or removed; a read of an id that
\* an upload has returned answers with that id and the results stored for
\* it, and a read of any other id answers not found.
C23_StoredAnalysisRetrievable ==
    [][/\ \A analysis_id \in StoredIds :
             /\ analysis_id \in DOMAIN ANALYSES'
             /\ ANALYSES'[analysis_id] = ANALYSES[analysis_id]
       /\ (response'.op = "get_analysis" /\ response' # response) =>
             IF response'.arg \in returned
             THEN /\ response'.status = 200
                  /\ response'.body =
                         [id |-> response'.arg,
                          results |-> ANALYSES[response'.arg].results]
             ELSE response'.status = 404]_vars

\* An entry of the shape the output contract gives: a text, a list of
\* category labels and a description.
WellFormedEntry(entry) ==
    /\ {"text", "category", "description"} \subseteq DOMAIN entry
    /\ entry.category.type = "list"

\* C24: an upload of a document ends with the created response and a stored
\* record of an id and a list of well-formed entries, never with an error
\* response.
C24_UploadAlwaysWellFormed ==
    /\ (response.op = "upload" /\ response.status # 400) => response.status = 201
    /\ \A analysis_id \in StoredIds :
          /\ DOMAIN ANALYSES[analysis_id] = {"id", "results"}
          /\ \A k \in 1..Len(ANALYSES[analysis_id].results) :
                WellFormedEntry(ANALYSES[analysis_id].results[k])

-----------------------------------------------------------------------------
(* Properties of analyze_essentials, checked under EssSpec *)

EssDone == esspc = "done"

\* Neither the text nor, when it holds the tagged fence, the slice between
\* the fences is one JSON value.
Unparsable(response_text) ==
    IF find_fence_json(response_text) # 0
    THEN ~json_loads(json_str(response_text)).ok
    ELSE ~json_loads(response_text).ok

\* C18: analyze_essentials always returns a record: the error-status record
\* when the service call fails, and the error record carrying the raw text
\* when the response cannot be parsed as JSON.
C18_AlwaysARecord ==
    EssDone =>
        /\ essential_results.type = "dict"
        /\ content.kind = "raises" => essential_results = StatusError
        /\ (content.kind = "text" /\ Unparsable(content.text)) =>
               essential_results = InvalidJson(content.text)

\* The text is one JSON object inside a fenced block opened by the given
\* fence, with white space allowed around the object.
Wrapped(response_text, opening) ==
    /\ Len(response_text) >= 3
    /\ response_text[1] = opening
    /\ response_text[Len(response_text)] = Fence
    /\ \A k \in 2..(Len(response_text) - 1) : response_text[k] \in {Object, Blank}
    /\ Cardinality({k \in 2..(Len(response_text) - 1) : response_text[k] = Object}) = 1

UnwrappedResult == parse_response(<<Object>>)

\* C19 as stated: a JSON object in a fenced block, with or without the json
\* tag on the opening fence, gives the record the bare object gives.
C19_Original ==
    (EssDone /\ content.kind = "text"
             /\ \E opening \in {FenceJson, Fence} : Wrapped(content.text, opening)) =>
        /\ essential_results = UnwrappedResult
        /\ essential_results = [type |-> "dict", object |-> Object]

\* C19: a JSON object in a fenced block whose opening fence carries the json
\* tag gives the parsed object, the record the bare object gives.
C19_TaggedFenceStripped ==
    (EssDone /\ content.kind = "text" /\ Wrapped(content.text, FenceJson)) =>
        /\ essential_results = UnwrappedResult
        /\ essential_results = [type |-> "dict", object |-> Object]

C19_Witness ==
    /\ EssDone
    /\ content.kind = "text"
    /\ Wrapped(content.text, FenceJson)
    /\ Len(content.text) > 3
    /\ essential_results = [type |-> "dict", object |-> Object]


-----------------------------------------------------------------------------
(* extract_text and its readers (file_utils.py:114-182; main.py:87-157 is  *)
(* the same code).  A file is the extension of its path, as a sequence of  *)
(* characters, and a body: whether reading it raises, and its parts, the   *)
(* pages of a PDF, the paragraphs of a DOCX, the pieces of the string an   *)
(* image or a plain file gives.                                            *)

MaxPageLen == 4        \* longest part of a body of one part
ShortPageLen == 1      \* longest part of a body of two parts

PageChars == {"D", " ", NL}

Ext(name) == <<".">> \o name

\* Extensions of the paths handed to extract_text, in the case they are
\* written in; <<>> is a path without extension.
Extensions ==
    { Ext(<<"p", "d", "f">>), Ext(<<"P", "D", "F">>), Ext(<<"P", "d", "f">>),
      Ext(<<"d", "o", "c", "x">>), Ext(<<"D", "O", "C">>),
      Ext(<<"j", "p", "g">>), Ext(<<"P", "N", "G">>), Ext(<<"T", "i", "f", "f">>),
      Ext(<<"t", "x", "t">>), Ext(<<"T", "X", "T">>), <<>> }

Bodies ==
    LET parts == {<<>>} \cup {<<p>> : p \in SeqsUpTo(PageChars, MaxPageLen)}
                        \cup {<<p, q>> : p \in SeqsUpTo(PageChars, ShortPageLen),
                                         q \in SeqsUpTo(PageChars, ShortPageLen)}
    IN  {[kind |-> "body", raises |-> r, parts |-> ps] : r \in BOOLEAN, ps \in parts}

LowerOf ==
    [c \in {"P", "D", "F", "O", "C", "N", "G", "T", "X"} |->
        CASE c = "P" -> "p" [] c = "D" -> "d" [] c = "F" -> "f" [] c = "O" -> "o"
          [] c = "C" -> "c" [] c = "N" -> "n" [] c = "G" -> "g" [] c = "T" -> "t"
          [] c = "X" -> "x"]

\* As lower, but the characters are left as they are.
lower_not(str) == str

\* str.lower() (file_utils.py:167)
lower(str) ==
    [k \in 1..Len(str) |-> IF str[k] \in DOMAIN LowerOf THEN LowerOf[str[k]] ELSE str[k]]

\* file_utils.py:167-175: the reader the extension selects.
reader_of(ext) ==
    LET extension == lower(ext)
    IN  IF extension \in {Ext(<<"p", "d", "f">>)} THEN "pdf"
        ELSE IF extension \in {Ext(<<"d", "o", "c", "x">>), Ext(<<"d", "o", "c">>)}
        THEN "docx"
        ELSE IF extension \in {Ext(<<"j", "p", "g">>), Ext(<<"j", "p", "e", "g">>),
                               Ext(<<"p", "n", "g">>), Ext(<<"b", "m", "p">>),
                               Ext(<<"t", "i", "f", "f">>), Ext(<<"t", "i", "f">>)}
        THEN "image"
        ELSE "plain"

\* The messages returned in place of a text (file_utils.py:139, 151, 162, 182).
ErrorText(reader) ==
    IF reader = "plain"
    THEN <<"Unsupported file format or error reading file: ...">>
    ELSE <<"Error extracting text: ...">>

\* As pdf_lines, but a blank line does not end the paragraph.
RECURSIVE pdf_lines_merged(_, _, _)
pdf_lines_merged(lines, paragraph, out) ==
    IF lines = <<>>
    THEN IF paragraph # <<>> THEN out \o strip(paragraph) \o <<NL>> ELSE out
    ELSE LET stripped_line == strip(Head(lines))
         IN  IF stripped_line # <<>>
             THEN pdf_lines_merged(Tail(lines), paragraph \o stripped_line \o <<" ">>, out)
             ELSE pdf_lines_merged(Tail(lines), paragraph, out)

\* file_utils.py:127-136: the lines of one page, with the paragraph in
\* progress and the text emitted so far.
RECURSIVE pdf_lines(_, _, _)
pdf_lines(lines, paragraph, out) ==
    IF lines = <<>>
    THEN IF paragraph # <<>> THEN out \o strip(paragraph) \o <<NL>> ELSE out
    ELSE LET stripped_line == strip(Head(lines))
         IN  IF stripped_line # <<>>
             THEN pdf_lines(Tail(lines), paragraph \o stripped_line \o <<" ">>, out)
             ELSE pdf_lines(Tail(lines), <<>>, out \o strip(paragraph) \o <<NL>>)

\* file_utils.py:122-136: what one page adds to the text.
pdf_page(page_text) ==
    IF page_text = <<>> THEN <<>>
    ELSE pdf_lines(split_newline(page_text), <<>>, <<>>)

\* file_utils.py:146-148: every paragraph followed by a newline.
RECURSIVE docx_text(_)
docx_text(paras) ==
    IF paras = <<>> THEN <<>>
    ELSE Head(paras) \o <<NL>> \o docx_text(Tail(paras))

Returned(reader, str) == [type |-> "str", reader |-> reader, text |-> str]

\* file_utils.py:165-175: the reader is selected; the PDF reader opens the
\* file and starts on its pages, the other readers run to their end.
ExtractDispatch ==
    /\ extpc = "start"
    /\ LET reader == reader_of(file_path.ext)
       IN  IF reader = "pdf"
           THEN /\ extpc' = "pages"
                /\ extracted_text' = Returned(reader, <<>>)
           ELSE /\ extpc' = "done"
                /\ extracted_text' =
                       IF file_path.body.raises
                       THEN Returned(reader, ErrorText(reader))
                       ELSE IF reader = "docx"
                       THEN Returned(reader, docx_text(file_path.body.parts))
                       ELSE Returned(reader, Flatten(file_path.body.parts))
    /\ UNCHANGED <<file_path, page_num>>
    /\ UNCHANGED <<analyzerVars, segVars, startVars, apiVars, essVars, itemVars>>

\* file_utils.py:120-136: one turn of the page loop.
PdfPage ==
    /\ extpc = "pages"
    /\ page_num <= Len(file_path.body.parts)
    /\ extracted_text' =
           [extracted_text EXCEPT
               !.text = @ \o pdf_page(file_path.body.parts[page_num])]
    /\ page_num' = page_num + 1
    /\ UNCHANGED <<file_path, extpc>>
    /\ UNCHANGED <<analyzerVars, segVars, startVars, apiVars, essVars, itemVars>>

\* file_utils.py:117-123, 137-140: opening the file or reading a page raises;
\* the text gathered so far is replaced by the message.
PdfRaises ==
    /\ extpc = "pages"
    /\ file_path.body.raises
    /\ extracted_text' = [extracted_text EXCEPT !.text = ErrorText("pdf")]
    /\ extpc' = "done"
    /\ UNCHANGED <<file_path, page_num>>
    /\ UNCHANGED <<analyzerVars, segVars, startVars, apiVars, essVars, itemVars>>

\* file_utils.py:140: all pages read.
PdfReturn ==
    /\ extpc = "pages"
    /\ ~file_path.body.raises
    /\ page_num > Len(file_path.body.parts)
    /\ extpc' = "done"
    /\ UNCHANGED <<file_path, page_num, extracted_text>>
    /\ UNCHANGED <<analyzerVars, segVars, startVars, apiVars, essVars, itemVars>>

ExtInit ==
    /\ \E ext \in Extensions, body \in Bodies :
          file_path = [ext |-> ext, body |-> body]
    /\ page_num = 1
    /\ extracted_text = <<>>
    /\ extpc = "start"
    /\ minimal_requirements = populate_collection(<<>>, "minimal_requirements", <<>>)
    /\ sample_agreement = populate_collection(<<>>, "sample_agreement", <<>>)
    /\ sentences = <<>>
    /\ i = 1
    /\ results = <<>>
    /\ ret = <<>>
    /\ calls = <<>>
    /\ failed = {}
    /\ pc = "idle"
    /\ SegOff
    /\ Started
    /\ ApiOff
    /\ EssOff
    /\ ItemsOff

ExtNext ==
    \/ ExtractDispatch
    \/ PdfPage
    \/ PdfRaises
    \/ PdfReturn

ExtSpec == ExtInit /\ [][ExtNext]_vars


-----------------------------------------------------------------------------
(* Properties of extract_text, checked under ExtSpec *)

ExtDone == extpc = "done"

\* The two extensions are the same up to the case of their letters.
SameIgnoringCase(ext, extension) ==
    /\ Len(ext) = Len(extension)
    /\ \A k \in 1..Len(ext) :
          \/ ext[k] = extension[k]
          \/ ext[k] \in DOMAIN LowerOf /\ LowerOf[ext[k]] = extension[k]

PdfExtensions == {Ext(<<"p", "d", "f">>)}

DocxExtensions == {Ext(<<"d", "o", "c", "x">>), Ext(<<"d", "o", "c">>)}

ImageExtensions ==
    {Ext(<<"j", "p", "g">>), Ext(<<"j", "p", "e", "g">>), Ext(<<"p", "n", "g">>),
     Ext(<<"b", "m", "p">>), Ext(<<"t", "i", "f", "f">>), Ext(<<"t", "i", "f">>)}

FormatOf(ext) ==
    IF \E e \in PdfExtensions : SameIgnoringCase(ext, e) THEN "pdf"
    ELSE IF \E e \in DocxExtensions : SameIgnoringCase(ext, e) THEN "docx"
    ELSE IF \E e \in ImageExtensions : SameIgnoringCase(ext, e) THEN "image"
    ELSE "plain"

\* C21: extract_text always comes to its return with a string; the reader is
\* the one of the extension whatever the case of its letters, and when
\* reading the file raises the string returned is the error message.
C21_NeverRaises ==
    /\ ~ExtDone => ENABLED ExtNext
    /\ ExtDone =>
          /\ extracted_text.type = "str"
          /\ extracted_text.reader = FormatOf(file_path.ext)
          /\ file_path.body.raises =>
                 extracted_text.text = ErrorText(FormatOf(file_path.ext))

C21_Witness ==
    /\ ExtDone
    /\ file_path.ext = Ext(<<"P", "D", "F">>)
    /\ file_path.body.raises
    /\ Len(file_path.body.parts) = 2
    /\ extracted_text = Returned("pdf", ErrorText("pdf"))

IsBlankLine(line) == \A k \in 1..Len(line) : IsSpace(line[k])

\* The stripped lines joined by single spaces.
RECURSIVE Joined(_)
Joined(lines) ==
    IF Len(lines) = 1 THEN strip(lines[1])
    ELSE strip(lines[1]) \o <<" ">> \o Joined(Tail(lines))

\* The maximal runs of consecutive non-blank lines, each joined, in order.
RECURSIVE RunsOf(_)
RunsOf(lines) ==
    IF lines = <<>> THEN <<>>
    ELSE IF IsBlankLine(Head(lines)) THEN RunsOf(Tail(lines))
    ELSE LET stops == {k \in 1..Len(lines) : IsBlankLine(lines[k])}
             n == IF stops = {} THEN Len(lines)
                  ELSE (CHOOSE k \in stops : \A j \in stops : k <= j) - 1
         IN  <<Joined(SubSeq(lines, 1, n))>> \o RunsOf(SubSeq(lines, n + 1, Len(lines)))

PageRuns(page_text) == RunsOf(split_newline(page_text))

RECURSIVE AllRuns(_)
AllRuns(pages) ==
    IF pages = <<>> THEN <<>> ELSE PageRuns(Head(pages)) \o AllRuns(Tail(pages))

\* Blank lines of a page, and one more when its last line is not blank.
BreakPlaces(page_text) ==
    LET lines == split_newline(page_text)
    IN  Cardinality({k \in 1..Len(lines) : IsBlankLine(lines[k])})
            + (IF IsBlankLine(lines[Len(lines)]) THEN 0 ELSE 1)

RECURSIVE AllBreakPlaces(_)
AllBreakPlaces(pages) ==
    IF pages = <<>> THEN 0
    ELSE BreakPlaces(Head(pages)) + AllBreakPlaces(Tail(pages))

\* The lines of an output text, each ended by its newline.
OutputLines(str) ==
    LET lines == split_newline(str)
    IN  SubSeq(lines, 1, Len(lines) - 1)

PdfDone ==
    /\ ExtDone
    /\ extracted_text.reader = "pdf"
    /\ ~file_path.body.raises

\* C22: the non-empty lines of the text of a PDF are, in order, the runs of
\* non-blank lines of its pages, each run joined with single spaces on a
\* line of its own; the text ends with a newline unless it is empty, and it
\* holds no more newlines than the pages have blank lines and ends.
C22_RunsBecomeLines ==
    PdfDone =>
        LET out == extracted_text.text
        IN  /\ SelectSeq(OutputLines(out), LAMBDA line : line # <<>>)
                   = AllRuns(file_path.body.parts)
            /\ out = <<>> \/ out[Len(out)] = NL
            /\ Len(SelectSeq(out, LAMBDA c : c = NL))
                   <= AllBreakPlaces(file_path.body.parts)

C22_Witness ==
    /\ PdfDone
    /\ \E k \in 1..Len(file_path.body.parts) :
          Len(PageRuns(file_path.body.parts[k])) = 2
    /\ Len(OutputLines(extracted_text.text)) = 2


-----------------------------------------------------------------------------
(* The item store (api/items.py).  createdAt (items.py:23) is left out: no *)
(* function reads it.                                                      *)

MaxItems == 2          \* most items stored at once

ItemIds == 1..(MaxItems + 1)

\* Request bodies: any of title, description and completed may be missing.
ItemBodies ==
    { [title |-> "a"],
      [title |-> "b", completed |-> TRUE],
      [description |-> "d"] }

\* dict.get(key, default)
get(body, key, default) == IF key \in DOMAIN body THEN body[key] ELSE default

Result(op, status, value) == [op |-> op, status |-> status, value |-> value]

NotFound == [error |-> "Item not found"]

\* The None delete_item returns with 204 (items.py:59).
NoneValue == [type |-> "NoneType"]

\* items.py:13-26; body.get("title") is None without a title.
create_item ==
    /\ Cardinality(DOMAIN ITEMS_DB) < MaxItems
    /\ \E body \in ItemBodies :
          LET item_id == Cardinality(DOMAIN ITEMS_DB) + 1
              new_item == [id          |-> item_id,
                           title       |-> get(body, "title", "None"),
                           description |-> get(body, "description", ""),
                           completed   |-> get(body, "completed", FALSE)]
          IN  /\ ITEMS_DB' = (item_id :> new_item) @@ ITEMS_DB
              /\ item_result' = Result("create_item", 201, new_item)
    /\ UNCHANGED <<analyzerVars, segVars, startVars, apiVars, essVars, extVars>>

\* items.py:37-49
update_item ==
    /\ \E itemId \in ItemIds, body \in ItemBodies :
          IF itemId \notin DOMAIN ITEMS_DB
          THEN /\ item_result' = Result("update_item", 404, NotFound)
               /\ UNCHANGED ITEMS_DB
          ELSE LET item == ITEMS_DB[itemId]
                   updated == [id          |-> item.id,
                               title       |-> get(body, "title", item.title),
                               description |-> get(body, "description", item.description),
                               completed   |-> get(body, "completed", item.completed)]
               IN  /\ ITEMS_DB' = [ITEMS_DB EXCEPT ![itemId] = updated]
                   /\ item_result' = Result("update_item", 200, updated)
    /\ UNCHANGED <<analyzerVars, segVars, startVars, apiVars, essVars, extVars>>

\* items.py:51-59
delete_item ==
    /\ \E itemId \in ItemIds :
          IF itemId \notin DOMAIN ITEMS_DB
          THEN /\ item_result' = Result("delete_item", 404, NotFound)
               /\ UNCHANGED ITEMS_DB
          ELSE /\ ITEMS_DB' = [k \in DOMAIN ITEMS_DB \ {itemId} |-> ITEMS_DB[k]]
               /\ item_result' = Result("delete_item", 204, NoneValue)
    /\ UNCHANGED <<analyzerVars, segVars, startVars, apiVars, essVars, extVars>>

\* items.py:5: the module is imported with an empty store.
ItemInit ==
    /\ ItemsOff
    /\ minimal_requirements = populate_collection(<<>>, "minimal_requirements", <<>>)
    /\ sample_agreement = populate_collection(<<>>, "sample_agreement", <<>>)
    /\ sentences = <<>>
    /\ i = 1
    /\ results = <<>>
    /\ ret = <<>>
    /\ calls = <<>>
    /\ failed = {}
    /\ pc = "idle"
    /\ SegOff
    /\ Started
    /\ ApiOff
    /\ EssOff
    /\ ExtOff

ItemNext ==
    \/ create_item
    \/ update_item
    \/ delete_item

ItemSpec == ItemInit /\ [][ItemNext]_vars

-----------------------------------------------------------------------------
(* Properties of the item store, checked under ItemSpec *)

\* C25: create_item stores the new item under an id that was no key of
\* ITEMS_DB, leaves every stored item as it was and makes the store one
\* item larger.
C25_CreateNeverOverwrites ==
    [][(item_result'.op = "create_item"
            /\ <<ITEMS_DB, item_result>>' # <<ITEMS_DB, item_result>>) =>
          /\ item_result'.value.id \notin DOMAIN ITEMS_DB
          /\ \A k \in DOMAIN ITEMS_DB :
                k \in DOMAIN ITEMS_DB' /\ ITEMS_DB'[k] = ITEMS_DB[k]
          /\ Cardinality(DOMAIN ITEMS_DB') = Cardinality(DOMAIN ITEMS_DB) + 1]_vars

====
